---- MODULE Spec2Model ----
(***************************************************************************)
(* Model of main.py: the FastAPI player service.                           *)
(*                                                                         *)
(* The handlers are plain `def` endpoints, so the HTTP runtime runs them   *)
(* on worker threads, several at a time.  The shared state is the SQLite   *)
(* file behind `engine`: the committed table `players`, the rollback       *)
(* journal of the one write transaction SQLite allows at a time, and the   *)
(* write lock.  Every handler builds its own Session with SessionLocal().  *)
(*                                                                         *)
(* Floating-point values are written as their Python repr ("26.4", "nan"). *)
(* A JSON value of a request body is a record [t, v]: its JSON type and    *)
(* its text.  `ret` is what the handler function returned or raised (or    *)
(* the validation error that kept it from running), before the response    *)
(* is serialised.                                                          *)
(***************************************************************************)
EXTENDS Integers, Sequences, FiniteSets, TLC

\* Bounds of the model.
MaxRequests == 2
NumThreads == 2
MaxLen == 3
MaxK == 2

VARIABLES
    players,        \* the committed rows of table "players", in rowid order
    journal,        \* rows written by the open write transaction, not yet committed
    lock,           \* the thread whose session holds SQLite's write lock, 0 if none
    pc,             \* per worker thread: where its request is
    kind,           \* per worker thread: the endpoint of its request
    body,           \* per worker thread: the request body as received
    pending,        \* per worker thread: the Player objects added to its Session
    session,        \* per worker thread: state of the Session its handler made
    ret,            \* per worker thread: how the request ended: rejected by
                    \* validation, or the handler returned `value`, or it raised
    served,         \* requests received so far
    openSessions,   \* Sessions made by SessionLocal() and not closed
    coerceNumToStr  \* the installed pydantic turns a JSON number into a str field

vars == <<players, journal, lock, pc, kind, body, pending, session, ret, served,
          openSessions, coerceNumToStr>>

Threads == 1..NumThreads

----------------------------------------------------------------------------
\* JSON values of a request body.

Num(v) == [t |-> "number", v |-> v]
Str(v) == [t |-> "string", v |-> v]
Null == [t |-> "null", v |-> ""]
Arr == [t |-> "array", v |-> ""]
Absent == [t |-> "absent", v |-> ""]

StrFields == {"name", "team", "position"}
FloatFields == {"points", "assists", "rebounds"}
Fields == StrFields \cup FloatFields

\* Texts that float() parses, with the float each denotes.
NumericText == {"25.00", "nan"}

\* float(s) for a text of NumericText.
ParseFloat(s) == IF s = "25.00" THEN "25.0" ELSE s

\* pydantic's validator of a `str` field: [ok, v].
str_validator(raw) ==
    IF raw.t = "string" THEN [ok |-> TRUE, v |-> raw.v]
    ELSE IF raw.t = "number" /\ coerceNumToStr THEN [ok |-> TRUE, v |-> raw.v]
    ELSE [ok |-> FALSE, v |-> ""]

\* A slip: any text passes for a float.
float_validator_any_text(raw) ==
    IF raw.t \in {"number", "string"} THEN [ok |-> TRUE, v |-> raw.v]
    ELSE [ok |-> FALSE, v |-> ""]

\* pydantic's validator of a `float` field: [ok, v].
float_validator(raw) ==
    IF raw.t = "number" THEN [ok |-> TRUE, v |-> raw.v]
    ELSE IF raw.t = "string" /\ raw.v \in NumericText
         THEN [ok |-> TRUE, v |-> ParseFloat(raw.v)]
    ELSE [ok |-> FALSE, v |-> ""]

PlayerBase(b) ==
    [f \in Fields |-> IF f \in StrFields THEN str_validator(b[f])
                                         ELSE float_validator(b[f])]

\* Whether body b passes as a PlayerCreate, and the model it becomes.
PlayerCreateValid(b) == \A f \in Fields : PlayerBase(b)[f].ok

PlayerCreate(b) == [f \in Fields |-> PlayerBase(b)[f].v]

----------------------------------------------------------------------------
\* The ORM class and the table.

\* Player(**fields): a new object, its id not yet assigned (0).
Player(d) ==
    [id |-> 0, name |-> d.name, team |-> d.team, position |-> d.position,
     points |-> d.points, assists |-> d.assists, rebounds |-> d.rebounds]

\* A Float column: SQLite stores a NaN as NULL, every other double as it is.
Float(x) == IF x = "nan" THEN "NULL" ELSE x

\* The row an INSERT of object p writes under rowid n.
Row(p, n) ==
    [id |-> n, name |-> p.name, team |-> p.team, position |-> p.position,
     points |-> Float(p.points), assists |-> Float(p.assists),
     rebounds |-> Float(p.rebounds)]

Ids(rows) == {rows[i].id : i \in DOMAIN rows}

Max(S) == IF S = {} THEN 0 ELSE CHOOSE x \in S : \A y \in S : y <= x

\* A slip: the next id taken from the number of committed rows.
NextRowid_by_count == Len(players) + 1

\* Integer primary key: SQLite gives a new row the largest rowid the writing
\* connection sees (the table and its own uncommitted rows), plus one.
NextRowid == Max(Ids(players) \cup Ids(journal)) + 1

sample_players ==
    << [name |-> "Stephen Curry", team |-> "GSW", position |-> "PG",
        points |-> "32.1", assists |-> "7.1", rebounds |-> "5.2"],
       [name |-> "LeBron James", team |-> "LAL", position |-> "SF",
        points |-> "28.9", assists |-> "8.3", rebounds |-> "8.1"],
       [name |-> "Giannis Antetokounmpo", team |-> "MIL", position |-> "PF",
        points |-> "29.7", assists |-> "5.8", rebounds |-> "11.5"],
       [name |-> "Luka Doncic", team |-> "DAL", position |-> "PG",
        points |-> "32.4", assists |-> "8.0", rebounds |-> "8.6"],
       [name |-> "Nikola Jokic", team |-> "DEN", position |-> "C",
        points |-> "26.4", assists |-> "9.1", rebounds |-> "11.8"] >>

----------------------------------------------------------------------------
\* The relation generator.

\* One output of the generator behind np.random.uniform: a double in [0, 1)
\* that is a multiple of 2^-53.  [end |-> "lo", k] is k * 2^-53 and
\* [end |-> "hi", k] is 1 - k * 2^-53.
random_sample ==
    {[end |-> "lo", k |-> k] : k \in 0..MaxK} \cup
    {[end |-> "hi", k |-> k] : k \in 1..MaxK}

\* A slip: the sample used as it is, never scaled into the interval.  The
\* anchor "zero" is 0.0.
uniform_unscaled(u) ==
    IF u.end = "lo" THEN [anchor |-> "zero", ulps |-> u.k]
                    ELSE [anchor |-> "hi", ulps |-> 0 - u.k]

\* np.random.uniform(0.7, 1.0) computes low + (high - low) * u in doubles.
\* The result is given by its distance in units of 2^-53 from 0.7
\* (anchor "lo") or from 1.0 (anchor "hi").  (high - low) is the double
\* 0.30000000000000004.
\*   u = k * 2^-53: the product is exact and the sum rounds 0.7 up by the
\*   integer nearest to 0.3 * k (plus a little: a half rounds up).
\*   u = 1 - k * 2^-53: the product is (high - low) less m * 2^-54, m the
\*   integer nearest to 0.6 * k (never a half), and the sum 1 - m * 2^-54
\*   rounds to a multiple of 2^-53, a half to the even neighbour.
uniform(u) ==
    IF u.end = "lo"
    THEN [anchor |-> "lo", ulps |-> (6 * u.k + 10) \div 20]
    ELSE LET m == (6 * u.k + 5) \div 10
             a == m \div 2
             d == IF m % 2 = 0 THEN a ELSE IF a % 2 = 0 THEN a ELSE a + 1
         IN  [anchor |-> "hi", ulps |-> 0 - d]

\* A slip: the two identifiers given the wrong way round.
NetworkRelation_swapped(p1, p2, w) ==
    [player1_id |-> p2, player2_id |-> p1, weight |-> w]

NetworkRelation(p1, p2, w) == [player1_id |-> p1, player2_id |-> p2, weight |-> w]

\* A slip in the inner range: range(i, len(player_ids)).
inner_start_at_i(i) == i

\* Where the inner loop starts for outer index i: range(i + 1, len(player_ids)).
inner_start(i) == i + 1

\* The two nested loops of get_network_relations, at (i, j), with the draws
\* still to come in us and the relations appended so far.
RECURSIVE network_loop(_, _, _, _, _)
network_loop(player_ids, i, j, us, relations) ==
    IF i > Len(player_ids) THEN relations
    ELSE IF j > Len(player_ids)
         THEN network_loop(player_ids, i + 1, inner_start(i + 1), us, relations)
    ELSE network_loop(player_ids, i, j + 1, Tail(us),
                      Append(relations,
                             NetworkRelation(player_ids[i], player_ids[j],
                                             uniform(Head(us)))))

\* How many times the loops draw a weight for a list of n identifiers.
RECURSIVE Draws(_, _, _)
Draws(n, i, j) ==
    IF i > n THEN 0
    ELSE IF j > n THEN Draws(n, i + 1, inner_start(i + 1))
    ELSE 1 + Draws(n, i, j + 1)

----------------------------------------------------------------------------
\* Requests.

Endpoints == {"get_players", "create_player", "get_network_relations",
              "create_sample_data"}

NoBody == <<>>
NoResponse == [status |-> "none", value |-> <<>>]

BaseBody ==
    [name |-> Str("Kobe Bryant"), team |-> Str("LAL"), position |-> Str("SG"),
     points |-> Num("25.0"), assists |-> Num("4.7"), rebounds |-> Num("5.2")]

\* Other values a client may send for field f, besides leaving it out.
OtherValues(f) ==
    CASE f = "name" -> {Null, Num("25.0")}
      [] f = "points" -> {Null, Arr, Str("abc"), Str("25.00"), Num("nan")}
      [] OTHER -> {}

\* Bodies of POST /api/players: the base body, it with one field left out, and
\* it with one field given another value.
PlayerBodies ==
    {BaseBody} \cup
    {[BaseBody EXCEPT ![f] = Absent] : f \in Fields} \cup
    {[BaseBody EXCEPT ![f] = v] : <<f, v>> \in
        UNION {{<<g, w>> : w \in OtherValues(g)} : g \in Fields}}

PlayerIds == {1, 2}

\* Lists of player ids of length at most n.
NetworkRequest(n) == UNION {[1..m -> PlayerIds] : m \in 0..n}

\* The lists the full service is driven with.
SmallNetworkRequest == {<<>>, <<1>>, <<1, 2>>, <<2, 2>>}

RequestBodies(k, lists) ==
    CASE k = "create_player" -> PlayerBodies
      [] k = "get_network_relations" -> lists
      [] OTHER -> {NoBody}

----------------------------------------------------------------------------
\* The service.

Init ==
    /\ players = <<>>
    /\ journal = <<>>
    /\ lock = 0
    /\ pc = [t \in Threads |-> "idle"]
    /\ kind = [t \in Threads |-> "none"]
    /\ body = [t \in Threads |-> NoBody]
    /\ pending = [t \in Threads |-> <<>>]
    /\ session = [t \in Threads |-> "none"]
    /\ ret = [t \in Threads |-> NoResponse]
    /\ served = 0
    /\ openSessions = 0
    /\ coerceNumToStr \in BOOLEAN

\* A request for one of the endpoints `kinds` arrives and is given to idle
\* worker t.  FastAPI validates the body before it calls the handler: a body
\* that is no PlayerCreate ends the request with a validation error and the
\* handler never runs.
Receive(t, kinds, lists) ==
    /\ pc[t] = "idle"
    /\ served < MaxRequests
    /\ \E k \in kinds : \E b \in RequestBodies(k, lists) :
          /\ kind' = [kind EXCEPT ![t] = k]
          /\ body' = [body EXCEPT ![t] = b]
          /\ IF k = "create_player" /\ ~PlayerCreateValid(b)
             THEN /\ pc' = [pc EXCEPT ![t] = "done"]
                  /\ ret' = [ret EXCEPT ![t] = [status |-> "validation_error", value |-> <<>>]]
             ELSE /\ pc' = [pc EXCEPT ![t] = "handler"]
                  /\ ret' = ret
    /\ served' = served + 1
    /\ UNCHANGED <<players, journal, lock, pending, session, openSessions,
                   coerceNumToStr>>

\* db = SessionLocal(): a new Session of the handler's own.
SessionLocal(t) ==
    /\ session' = [session EXCEPT ![t] = "open"]
    /\ openSessions' = openSessions + 1

\* A slip: a read that also sees rows of an open transaction.
query_all_dirty == players \o journal

\* db.query(Player).all(): the committed rows.
query_all == players

get_players(t) ==
    /\ pc[t] = "handler"
    /\ kind[t] = "get_players"
    /\ SessionLocal(t)
    /\ ret' = [ret EXCEPT ![t] = [status |-> "returned", value |-> query_all]]
    /\ pc' = [pc EXCEPT ![t] = "done"]
    /\ UNCHANGED <<players, journal, lock, kind, body, pending, served,
                   coerceNumToStr>>

\* Up to db.commit(): the new object is added to the session.
create_player(t) ==
    /\ pc[t] = "handler"
    /\ kind[t] = "create_player"
    /\ SessionLocal(t)
    /\ pending' = [pending EXCEPT ![t] = <<Player(PlayerCreate(body[t]))>>]
    /\ pc' = [pc EXCEPT ![t] = "commit"]
    /\ UNCHANGED <<players, journal, lock, kind, body, ret, served, coerceNumToStr>>

\* A slip: the loop over sample_players stops one short.
create_sample_data_one_short(t) ==
    /\ pc[t] = "handler"
    /\ kind[t] = "create_sample_data"
    /\ SessionLocal(t)
    /\ pending' = [pending EXCEPT ![t] =
                      [i \in 1..(Len(sample_players) - 1) |-> Player(sample_players[i])]]
    /\ pc' = [pc EXCEPT ![t] = "commit"]
    /\ UNCHANGED <<players, journal, lock, kind, body, ret, served, coerceNumToStr>>

\* Up to db.commit(): the five sample objects are added to the session.
create_sample_data(t) ==
    /\ pc[t] = "handler"
    /\ kind[t] = "create_sample_data"
    /\ SessionLocal(t)
    /\ pending' = [pending EXCEPT ![t] =
                      [i \in DOMAIN sample_players |-> Player(sample_players[i])]]
    /\ pc' = [pc EXCEPT ![t] = "commit"]
    /\ UNCHANGED <<players, journal, lock, kind, body, ret, served, coerceNumToStr>>

\* The objects of t's session that the flush has not written yet.
Unflushed(t) == {i \in DOMAIN pending[t] : pending[t][i].id = 0}

\* A slip: a session made with autocommit, so that every INSERT is committed
\* as it is made.
Insert_autocommit(t) ==
    /\ pc[t] = "commit"
    /\ Unflushed(t) # {}
    /\ lock \in {0, t}
    /\ LET i == CHOOSE x \in Unflushed(t) : \A y \in Unflushed(t) : x <= y
           n == NextRowid
       IN  /\ players' = Append(players, Row(pending[t][i], n))
           /\ pending' = [pending EXCEPT ![t][i].id = n]
    /\ lock' = t
    /\ UNCHANGED <<journal, pc, kind, body, session, ret, served, openSessions,
                   coerceNumToStr>>

\* db.commit() flushes: one INSERT per added object, in the order added, inside
\* the session's transaction (autocommit=False).  The first INSERT takes
\* SQLite's write lock; the row goes to the journal and the object gets the
\* rowid.
Insert(t) ==
    /\ pc[t] = "commit"
    /\ Unflushed(t) # {}
    /\ lock \in {0, t}
    /\ LET i == CHOOSE x \in Unflushed(t) : \A y \in Unflushed(t) : x <= y
           n == NextRowid
       IN  /\ journal' = Append(journal, Row(pending[t][i], n))
           /\ pending' = [pending EXCEPT ![t][i].id = n]
    /\ lock' = t
    /\ UNCHANGED <<players, pc, kind, body, session, ret, served, openSessions,
                   coerceNumToStr>>

\* Another session holds the write lock and SQLite's busy timeout runs out:
\* the INSERT raises OperationalError, nothing catches it, the request ends in
\* a server error.
Busy(t) ==
    /\ pc[t] = "commit"
    /\ lock \notin {0, t}
    /\ pending' = [pending EXCEPT ![t] = <<>>]
    /\ pc' = [pc EXCEPT ![t] = "done"]
    /\ ret' = [ret EXCEPT ![t] = [status |-> "server_error", value |-> <<>>]]
    /\ UNCHANGED <<players, journal, lock, kind, body, session, served,
                   openSessions, coerceNumToStr>>

\* The store fails while t's transaction is open (I/O error, full disk): the
\* transaction is rolled back and the request ends in a server error.
StoreFail(t) ==
    /\ pc[t] = "commit"
    /\ lock = t
    /\ journal' = <<>>
    /\ lock' = 0
    /\ pending' = [pending EXCEPT ![t] = <<>>]
    /\ pc' = [pc EXCEPT ![t] = "done"]
    /\ ret' = [ret EXCEPT ![t] = [status |-> "server_error", value |-> <<>>]]
    /\ UNCHANGED <<players, kind, body, session, served, openSessions,
                   coerceNumToStr>>

\* The COMMIT that ends db.commit(): the journal's rows become part of the
\* table at once.  create_sample_data returns its message right after.
Commit(t) ==
    /\ pc[t] = "commit"
    /\ Unflushed(t) = {}
    /\ lock = t
    /\ players' = players \o journal
    /\ journal' = <<>>
    /\ lock' = 0
    /\ IF kind[t] = "create_player"
       THEN /\ pc' = [pc EXCEPT ![t] = "refresh"]
            /\ ret' = ret
       ELSE /\ pc' = [pc EXCEPT ![t] = "done"]
            /\ ret' = [ret EXCEPT ![t] =
                         [status |-> "returned", value |-> "Sample data created successfully"]]
    /\ UNCHANGED <<kind, body, pending, session, served, openSessions,
                   coerceNumToStr>>

\* The row of the table with primary key n, as a sequence of zero or one rows.
SelectById(n) == SelectSeq(players, LAMBDA r : r.id = n)

\* db.refresh(db_player); return db_player: the object takes the values of
\* its row, as stored.
Refresh(t) ==
    /\ pc[t] = "refresh"
    /\ LET row == SelectById(pending[t][1].id)[1]
       IN  /\ pending' = [pending EXCEPT ![t][1] = row]
           /\ ret' = [ret EXCEPT ![t] = [status |-> "returned", value |-> row]]
    /\ pc' = [pc EXCEPT ![t] = "done"]
    /\ UNCHANGED <<players, journal, lock, kind, body, session, served,
                   openSessions, coerceNumToStr>>

\* The whole handler of POST /api/network: it reads and writes nothing shared.
get_network_relations(t) ==
    /\ pc[t] = "handler"
    /\ kind[t] = "get_network_relations"
    /\ LET player_ids == body[t]
       IN  \E us \in [1..Draws(Len(player_ids), 1, inner_start(1)) -> random_sample] :
             ret' = [ret EXCEPT ![t] =
                       [status |-> "returned",
                        value |-> network_loop(player_ids, 1, inner_start(1), us, <<>>)]]
    /\ pc' = [pc EXCEPT ![t] = "done"]
    /\ UNCHANGED <<players, journal, lock, kind, body, pending, session, served,
                   openSessions, coerceNumToStr>>

\* The response is sent and the worker is free again.  The handler's Session
\* goes out of scope as it is: no endpoint calls db.close(), and none depends
\* on get_db, the one place that would.
Respond(t) ==
    /\ pc[t] = "done"
    /\ pc' = [pc EXCEPT ![t] = "idle"]
    /\ kind' = [kind EXCEPT ![t] = "none"]
    /\ body' = [body EXCEPT ![t] = NoBody]
    /\ pending' = [pending EXCEPT ![t] = <<>>]
    /\ session' = [session EXCEPT ![t] = "none"]
    /\ ret' = [ret EXCEPT ![t] = NoResponse]
    /\ UNCHANGED <<players, journal, lock, served, openSessions, coerceNumToStr>>

Next ==
    \E t \in Threads :
        \/ Receive(t, Endpoints, SmallNetworkRequest)
        \/ get_players(t)
        \/ create_player(t)
        \/ create_sample_data(t)
        \/ Insert(t)
        \/ Busy(t)
        \/ StoreFail(t)
        \/ Commit(t)
        \/ Refresh(t)
        \/ get_network_relations(t)
        \/ Respond(t)

Spec == Init /\ [][Next]_vars

\* The relation generator alone: worker 1 takes one request for
\* POST /api/network, with the longer lists.
NextNet ==
    \/ Receive(1, {"get_network_relations"}, NetworkRequest(MaxLen))
    \/ get_network_relations(1)

\* The str coercion plays no part in this endpoint: one build is enough.
InitNet == Init /\ ~coerceNumToStr

SpecNet == InitNet /\ [][NextNet]_vars

----------------------------------------------------------------------------
\* Properties of the relation generator (specification SpecNet).

NetworkDone(t) == pc[t] = "done" /\ kind[t] = "get_network_relations"

\* Comparisons of a weight with the two ends of the interval.
AtLeastLow(w) == w.anchor = "hi" \/ (w.anchor = "lo" /\ w.ulps >= 0)
BelowHigh(w) == w.anchor # "hi" \/ w.ulps < 0
AtMostHigh(w) == w.anchor # "hi" \/ w.ulps <= 0

\* C1: for a list of n identifiers (n >= 0) get_network_relations returns
\* exactly n(n-1)/2 relations, as a normal result; none for n <= 1.
C1_PairCount ==
    \A t \in Threads :
        NetworkDone(t) =>
            LET n == Len(body[t])
            IN  /\ ret[t].status = "returned"
                /\ 2 * Len(ret[t].value) = n * (n - 1)
                /\ (n <= 1 => ret[t].value = <<>>)

C1_Witness ==
    \E t \in Threads :
        NetworkDone(t) /\ Len(body[t]) = 3 /\ Len(ret[t].value) = 3

\* C8 as stated: every weight w returned has 0.7 <= w < 1.0.
C8_HalfOpen ==
    \A t \in Threads :
        NetworkDone(t) =>
            \A k \in DOMAIN ret[t].value :
                AtLeastLow(ret[t].value[k].weight) /\ BelowHigh(ret[t].value[k].weight)

\* C8 as amended: every weight w returned has 0.7 <= w <= 1.0; the upper
\* end is reached, by rounding, for the largest samples.
C8_Closed ==
    \A t \in Threads :
        NetworkDone(t) =>
            \A k \in DOMAIN ret[t].value :
                AtLeastLow(ret[t].value[k].weight) /\ AtMostHigh(ret[t].value[k].weight)

C8_Witness ==
    \E t \in Threads :
        /\ NetworkDone(t)
        /\ \E k \in DOMAIN ret[t].value :
              ret[t].value[k].weight = [anchor |-> "hi", ulps |-> 0]
        /\ \E k \in DOMAIN ret[t].value :
              ret[t].value[k].weight = [anchor |-> "lo", ulps |-> 0]

\* The place in the output of the pair of positions i < j of a list of n.
PairIndex(i, j, n) == ((i - 1) * (2 * n - i)) \div 2 + (j - i)

\* C9: pairs go by list position: for every i < j one relation with
\* player1_id = player_ids[i] and player2_id = player_ids[j], in loop order,
\* and nothing else; a repeated identifier is paired with itself, and
\* identifiers of no stored Player are paired without error.
C9_ByPosition ==
    \A t \in Threads :
        NetworkDone(t) =>
            LET ids == body[t]
                n == Len(ids)
                rel == ret[t].value
            IN  /\ ret[t].status = "returned"
                /\ 2 * Len(rel) = n * (n - 1)
                /\ \A i \in 1..n : \A j \in (i + 1)..n :
                      /\ PairIndex(i, j, n) \in DOMAIN rel
                      /\ rel[PairIndex(i, j, n)].player1_id = ids[i]
                      /\ rel[PairIndex(i, j, n)].player2_id = ids[j]

C9_Witness ==
    \E t \in Threads :
        /\ NetworkDone(t)
        /\ players = <<>>
        /\ body[t] = <<1, 2, 1>>
        /\ ret[t].value[2].player1_id = ret[t].value[2].player2_id
        /\ ret[t].value[1].player1_id # ret[t].value[1].player2_id

----------------------------------------------------------------------------
\* Properties of the store endpoints (specification Spec).

StoreEndpoints == {"get_players", "create_player", "create_sample_data"}

\* C2: every endpoint that touches the store closes the session it opened
\* before its request ends, on every exit path, and once all requests have
\* completed no session a request opened is still open.
C2_SessionsClosed ==
    /\ \A t \in Threads :
          (pc[t] = "done" /\ kind[t] \in StoreEndpoints) => session[t] # "open"
    /\ (\A t \in Threads : pc[t] = "idle") => openSessions = 0

\* C3: for every valid PlayerCreate input, create_player inserts exactly one
\* row, with an id no earlier record has, and returns a record whose six
\* fields equal the input's.
C3_CreateReturnsInput ==
    [][\A t \in Threads :
         /\ (pc[t] = "commit" /\ kind[t] = "create_player" /\ pc'[t] = "refresh") =>
               /\ Len(players') = Len(players) + 1
               /\ SubSeq(players', 1, Len(players)) = players
               /\ players'[Len(players')].id \notin Ids(players)
         /\ (pc[t] = "refresh" /\ pc'[t] = "done") =>
               /\ ret'[t].status = "returned"
               /\ ret'[t].value.id = pending[t][1].id
               /\ \A f \in Fields : ret'[t].value[f] = PlayerCreate(body[t])[f]
      ]_vars

Content(r) ==
    [name |-> r.name, team |-> r.team, position |-> r.position,
     points |-> r.points, assists |-> r.assists, rebounds |-> r.rebounds]

Jokic ==
    [name |-> "Nikola Jokic", team |-> "DEN", position |-> "C",
     points |-> "26.4", assists |-> "9.1", rebounds |-> "11.8"]

SampleNames ==
    {"Stephen Curry", "LeBron James", "Giannis Antetokounmpo", "Luka Doncic",
     "Nikola Jokic"}

\* With nothing but sample data stored: a multiple of five rows, all ids
\* distinct, the five samples over and over.
OnlySamples ==
    (\A i \in DOMAIN players : players[i].name \in SampleNames) =>
        /\ Len(players) % 5 = 0
        /\ Cardinality(Ids(players)) = Len(players)
        /\ \A i \in DOMAIN players :
              Content(players[i]) = sample_players[((i - 1) % 5) + 1]
        /\ 5 * Cardinality({i \in DOMAIN players : Content(players[i]) = Jokic})
              = Len(players)

\* C5: every successful create_sample_data adds exactly the five sample
\* records under five new distinct ids, whatever the store holds; from an
\* empty store one call leaves 5 records (Nikola Jokic among them) and two
\* calls leave 10, content repeated, ids distinct.
C5_SeedAddsFive ==
    /\ OnlySamples
    /\ [][/\ OnlySamples'
          /\ \A t \in Threads :
               (/\ pc[t] = "commit"
                /\ kind[t] = "create_sample_data"
                /\ pc'[t] = "done"
                /\ ret'[t].status = "returned") =>
                   LET n == Len(players)
                   IN  /\ Len(players') = n + 5
                       /\ SubSeq(players', 1, n) = players
                       /\ \A i \in 1..5 :
                             /\ Content(players'[n + i]) = sample_players[i]
                             /\ players'[n + i].id \notin Ids(players)
                       /\ Content(players'[n + 5]) = Jokic
                       /\ \A i, j \in 1..5 :
                             i # j => players'[n + i].id # players'[n + j].id
         ]_vars

C5_Witness ==
    /\ Len(players) = 10
    /\ Cardinality(Ids(players)) = 10
    /\ Content(players[5]) = Jokic
    /\ Content(players[10]) = Jokic
    /\ \E t \in Threads :
          pc[t] = "done" /\ kind[t] = "create_sample_data" /\ ret[t].status = "returned"

\* The JSON type of a value is not the one the field is declared with.
WrongPrimitiveType(f, raw) ==
    \/ f \in StrFields /\ raw.t # "string"
    \/ f \in FloatFields /\ raw.t # "number"

\* C6 as stated: a POST /api/players body that lacks one of the six fields
\* or gives one a value of the wrong primitive type ends in a validation
\* error (and so never reaches the handler, which alone writes).
C6_WrongTypeRejected ==
    \A t \in Threads :
        (/\ kind[t] = "create_player"
         /\ \E f \in Fields : WrongPrimitiveType(f, body[t][f])) =>
            pc[t] = "done" /\ ret[t].status = "validation_error"

\* A value no validator converts: a field left out, null, an array, and for
\* a statistic a text that is no number.
Unconvertible(f, raw) ==
    \/ raw.t \in {"absent", "null", "array"}
    \/ f \in FloatFields /\ raw.t = "string" /\ raw.v \notin NumericText

BadCreate(t) ==
    /\ kind[t] = "create_player"
    /\ \E f \in Fields : Unconvertible(f, body[t][f])

RejectedUntouched ==
    \A t \in Threads :
        BadCreate(t) =>
            /\ pc[t] = "done"
            /\ ret[t].status = "validation_error"
            /\ session[t] = "none"
            /\ pending[t] = <<>>

\* C6 as amended: a body that lacks one of the six fields, or gives one a
\* value that cannot be converted to the field's type, ends in a validation
\* error; the handler never runs for it and the request's own steps leave
\* the table and the journal as they were.
C6_UnconvertibleRejected ==
    /\ RejectedUntouched
    /\ [][/\ RejectedUntouched'
          /\ \A t \in Threads :
               ((pc[t] = "idle" /\ BadCreate(t)') \/ (BadCreate(t) /\ pc'[t] = "idle")) =>
                   players' = players /\ journal' = journal
         ]_vars

C6_Witness ==
    \E t \in Threads :
        /\ kind[t] = "create_player"
        /\ body[t].points = Absent
        /\ pc[t] = "done"
        /\ ret[t].status = "validation_error"
        /\ Len(players) = 1

UniqueIds ==
    \A i, j \in DOMAIN players : i # j => players[i].id # players[j].id

\* C7: no two stored records share an id, and a stored record keeps its id
\* and its fields and is never removed (so no id is used twice), whatever
\* the interleaving of concurrent requests, each with a session of its own.
C7_IdsStable ==
    /\ UniqueIds
    /\ [][/\ UniqueIds'
          /\ Len(players') >= Len(players)
          /\ \A i \in DOMAIN players : players'[i] = players[i]
         ]_vars

C7_Witness ==
    /\ Len(players) = 6
    /\ Cardinality(Ids(players)) = 6
    /\ \A t \in Threads : pc[t] = "done" /\ ret[t].status = "returned"
    /\ \E t \in Threads : kind[t] = "create_player"
    /\ \E t \in Threads : kind[t] = "create_sample_data"

\* How many of the rows a read returns were written by t's session.
RowsOf(t, rows) ==
    Cardinality({i \in DOMAIN rows :
                    \E k \in DOMAIN pending[t] : pending[t][k].id = rows[i].id})

AllOrNothing ==
    \A t \in Threads :
        kind[t] = "create_sample_data" =>
            /\ RowsOf(t, players) \in {0, 5}
            /\ \A u \in Threads :
                  (pc[u] = "done" /\ kind[u] = "get_players") =>
                      RowsOf(t, ret[u].value) \in {0, 5}

\* C10: create_sample_data is all-or-nothing: the table, and so what any
\* concurrent get_players reads, holds none or all five of a call's rows,
\* and a call that fails before its commit leaves none.
C10_SeedAtomic ==
    /\ AllOrNothing
    /\ [][/\ AllOrNothing'
          /\ \A t \in Threads :
               (/\ pc[t] = "commit"
                /\ kind[t] = "create_sample_data"
                /\ pc'[t] = "done"
                /\ ret'[t].status = "server_error") =>
                   /\ players' = players
                   /\ lock = t => journal' = <<>>
         ]_vars

C10_Witness ==
    \E t, u \in Threads :
        /\ kind[t] = "create_sample_data"
        /\ lock = t
        /\ Len(journal) = 3
        /\ pc[u] = "done"
        /\ kind[u] = "get_players"
        /\ ret[u].value = <<>>

====
